---- MODULE Spec2Model ----
(***************************************************************************)
(* NetCheck: the diagnosis engine (NetworkDiagnostics), the measurement    *)
(* collector it drives (NetworkChecker probes) and the monitor loop        *)
(* (NetworkMonitor).                                                       *)
(*                                                                         *)
(* Python values are represented as follows.                               *)
(*   Optional[T]   a sequence of length at most one: <<>> is None and      *)
(*                 <<v>> is the value v.                                   *)
(*   float loss    ping_host builds it with float() of a \d+ match, so it  *)
(*                 is an integer-valued float; kept as that integer.       *)
(*   float avg     kept in thousandths of a millisecond (ping prints three *)
(*                 decimals), so 100.0 ms is 100 * AvgUnit.                *)
(*   dict {}       the empty sequence <<>>; a filled results dict is a     *)
(*                 record with the dict's keys.                            *)
(***************************************************************************)
EXTENDS Integers, Sequences, FiniteSets, TLC

VARIABLES
    is_windows,       \* NetworkChecker.is_windows
    results,          \* NetworkDiagnostics.results
    call,             \* the latest get_diagnosis call: its argument and outcome
    repeat,           \* the latest call passed the same Measurement as the call before it
    pc,               \* position of NetworkMonitor.monitor
    running,          \* NetworkMonitor.running
    previous_status,  \* NetworkMonitor.previous_status
    connected,        \* monitor's local variable connected
    ticks,            \* is_connected results, one per tick, oldest first
    events,           \* what the monitor has printed, oldest first
    diag_runs,        \* full diagnostics run by the monitor
    diagnosis,        \* the local variable diagnosis of _handle_status_change and cmd_full
    command,          \* the command main was started with
    exit_status       \* the exit status of the process, None while it runs

vars == <<is_windows, results, call, repeat, pc, running, previous_status,
          connected, ticks, events, diag_runs, diagnosis, command,
          exit_status>>

main_vars == <<command, exit_status>>

monitor_vars == <<pc, running, previous_status, connected, ticks, events,
                  diag_runs, diagnosis>>

----------------------------------------------------------------------------
(* Bounds and value sets *)

MaxTicks == 5

AvgUnit == 1000

None == <<>>
Some(v) == <<v>>
Optional(S) == {None} \cup {Some(v) : v \in S}

LocalIps == Optional({"192.168.1.10"})
ExternalIps == {None}
Gateways == Optional({"192.168.1.1"})
InterfaceLists == {<<>>}
LossValues == Optional({0, 20, 21, 50})
AvgValues == Optional({100 * AvgUnit, 100 * AvgUnit + 1, 200 * AvgUnit})

PingResult == [success : BOOLEAN, avg : AvgValues, loss : LossValues]

(* What a ping can hand back: the except branch, a run whose output did not
   parse, clean runs (fast, slow), a lossy run, a failed run that reported
   its loss. *)
PingOutcomes ==
    {[success |-> FALSE, avg |-> None, loss |-> None],
     [success |-> TRUE,  avg |-> None, loss |-> None],
     [success |-> TRUE,  avg |-> Some(100 * AvgUnit), loss |-> Some(0)],
     [success |-> TRUE,  avg |-> Some(200 * AvgUnit), loss |-> Some(0)],
     [success |-> TRUE,  avg |-> Some(100 * AvgUnit), loss |-> Some(50)],
     [success |-> FALSE, avg |-> None, loss |-> Some(50)]}
DomainPings == {[success |-> FALSE, avg |-> None, loss |-> None]}
DnsOutcomes == {"resolved", "gaierror", "oserror"}

----------------------------------------------------------------------------
(* Python truthiness of Optional[float] and Optional[str] *)

TruthyNum(o) == o /= None /\ o[1] /= 0
TruthyStr(o) == o /= None /\ o[1] /= ""

(* str() of an integer-valued float, and format(avg, ".1f") *)
FormatFloat(x) == ToString(x) \o ".0"
FormatF1(x) ==
    LET tenths == (x * 10 + (AvgUnit \div 2)) \div AvgUnit
    IN  ToString(tenths \div 10) \o "." \o ToString(tenths % 10)

----------------------------------------------------------------------------
(* NetworkChecker probes: the outcome of a probe is an input of the model *)

ping_host(outcome) == outcome

check_dns_raises(outcome) == outcome = "oserror"
check_dns(outcome) == outcome = "resolved"

is_connected(outcome) == ping_host(outcome).success

----------------------------------------------------------------------------
(* NetworkDiagnostics *)

EmptyResults == <<>>

run_full_diagnostic(local_ip, external_ip, gateway, interfaces, google, domain, dns) ==
    [local_ip           |-> local_ip,
     external_ip        |-> external_ip,
     gateway            |-> gateway,
     interfaces         |-> interfaces,
     ping_google_dns    |-> [success |-> ping_host(google).success,
                             avg     |-> ping_host(google).avg,
                             loss    |-> ping_host(google).loss],
     ping_domain        |-> [success |-> ping_host(domain).success,
                             avg     |-> ping_host(domain).avg,
                             loss    |-> ping_host(domain).loss],
     dns_working        |-> check_dns(dns),
     internet_connected |-> ping_host(google).success]

Measurement ==
    {run_full_diagnostic(l, e, g, i, p, d, n) :
        l \in LocalIps, e \in ExternalIps, g \in Gateways, i \in InterfaceLists,
        p \in PingResult, d \in DomainPings, n \in DnsOutcomes \ {"oserror"}}

Unknown == [status |-> "unknown", issues |-> <<>>, advice |-> <<>>]

(* NoConnection with the gateway looked at before the local IP *)
NoConnection_GatewayFirst(m) ==
    LET top == "No internet connectivity detected"
    IN  IF ~TruthyStr(m.gateway)
        THEN [status |-> "no_connection",
              issues |-> <<top, "No default gateway detected">>,
              advice |-> <<"Check router connection", "Restart your router">>]
        ELSE IF ~TruthyStr(m.local_ip)
        THEN [status |-> "no_connection",
              issues |-> <<top, "No network connection (no local IP)">>,
              advice |-> <<"Check your network cable or Wi-Fi connection",
                           "Restart your network adapter">>]
        ELSE [status |-> "no_connection",
              issues |-> <<top, "Connected to router but no internet access">>,
              advice |-> <<"Check if your router has internet access",
                           "Contact your ISP if router is online but no internet">>]

NoConnection(m) ==
    LET top == "No internet connectivity detected"
    IN  IF ~TruthyStr(m.local_ip)
        THEN [status |-> "no_connection",
              issues |-> <<top, "No network connection (no local IP)">>,
              advice |-> <<"Check your network cable or Wi-Fi connection",
                           "Restart your network adapter">>]
        ELSE IF ~TruthyStr(m.gateway)
        THEN [status |-> "no_connection",
              issues |-> <<top, "No default gateway detected">>,
              advice |-> <<"Check router connection", "Restart your router">>]
        ELSE [status |-> "no_connection",
              issues |-> <<top, "Connected to router but no internet access">>,
              advice |-> <<"Check if your router has internet access",
                           "Contact your ISP if router is online but no internet">>]

DnsIssue(windows) ==
    [status |-> "dns_issue",
     issues |-> <<"DNS not responding properly">>,
     advice |-> <<"Try changing DNS server to 8.8.8.8 or 1.1.1.1",
                  "Flush DNS cache",
                  IF windows THEN "Run: ipconfig /flushdns"
                             ELSE "Restart network service or reboot">>]

(* HighLoss with the threshold itself counted as high *)
HighLoss_Inclusive(loss) == TruthyNum(loss) /\ loss[1] >= 20

HighLoss(loss) == TruthyNum(loss) /\ loss[1] > 20

UnstableConnection(loss) ==
    [status |-> "unstable_connection",
     issues |-> <<"High packet loss (" \o FormatFloat(loss[1]) \o "%)">>,
     advice |-> <<"Network connection is unstable",
                  "Check Wi-Fi signal strength if using wireless",
                  "Check network cables if using Ethernet",
                  "Restart router if problem persists">>]

(* HighLatency with the threshold itself counted as high *)
HighLatency_Inclusive(avg) == TruthyNum(avg) /\ avg[1] >= 100 * AvgUnit

HighLatency(avg) == TruthyNum(avg) /\ avg[1] > 100 * AvgUnit

SlowConnection(avg) ==
    [status |-> "slow_connection",
     issues |-> <<"High latency (" \o FormatF1(avg[1]) \o "ms)">>,
     advice |-> <<"Network latency is high",
                  "Close bandwidth-intensive applications",
                  "Check if others are using network heavily">>]

Healthy ==
    [status |-> "healthy",
     issues |-> <<>>,
     advice |-> <<"Internet is working normally">>]

(* Chosen with self.results preferred once it is filled *)
Chosen_StoredFirst(arg, stored) ==
    IF stored /= EmptyResults \/ arg = None THEN stored ELSE arg[1]

(* The results dict get_diagnosis works on: the argument, or self.results
   when the argument is None. *)
Chosen(arg, stored) == IF arg = None THEN stored ELSE arg[1]

(* The rule cascade with the DNS rule ahead of the connectivity rule *)
Cascade_DnsFirst(m, windows) ==
    IF ~m.dns_working THEN DnsIssue(windows)
    ELSE IF ~m.internet_connected THEN NoConnection(m)
    ELSE IF HighLoss(m.ping_google_dns.loss)
         THEN UnstableConnection(m.ping_google_dns.loss)
    ELSE IF HighLatency(m.ping_google_dns.avg)
         THEN SlowConnection(m.ping_google_dns.avg)
    ELSE Healthy

(* The rule cascade with the loss rule ahead of the DNS rule *)
Cascade_LossFirst(m, windows) ==
    IF ~m.internet_connected THEN NoConnection(m)
    ELSE IF HighLoss(m.ping_google_dns.loss)
         THEN UnstableConnection(m.ping_google_dns.loss)
    ELSE IF ~m.dns_working THEN DnsIssue(windows)
    ELSE IF HighLatency(m.ping_google_dns.avg)
         THEN SlowConnection(m.ping_google_dns.avg)
    ELSE Healthy

(* The rule cascade with an unparsed latency reported as slow *)
Cascade_AbsentLatencySlow(m, windows) ==
    IF ~m.internet_connected THEN NoConnection(m)
    ELSE IF ~m.dns_working THEN DnsIssue(windows)
    ELSE IF HighLoss(m.ping_google_dns.loss)
         THEN UnstableConnection(m.ping_google_dns.loss)
    ELSE IF m.ping_google_dns.avg = None
         THEN [status |-> "slow_connection",
               issues |-> <<"High latency (unknown)">>,
               advice |-> <<"Network latency is high">>]
    ELSE IF HighLatency(m.ping_google_dns.avg)
         THEN SlowConnection(m.ping_google_dns.avg)
    ELSE Healthy

(* The rule cascade without its closing healthy branch *)
Cascade_NoDefault(m, windows) ==
    IF ~m.internet_connected THEN NoConnection(m)
    ELSE IF ~m.dns_working THEN DnsIssue(windows)
    ELSE IF HighLoss(m.ping_google_dns.loss)
         THEN UnstableConnection(m.ping_google_dns.loss)
    ELSE IF HighLatency(m.ping_google_dns.avg)
         THEN SlowConnection(m.ping_google_dns.avg)
    ELSE Unknown

(* The rule cascade of get_diagnosis: the first rule that matches decides *)
Cascade(m, windows) ==
    IF ~m.internet_connected THEN NoConnection(m)
    ELSE IF ~m.dns_working THEN DnsIssue(windows)
    ELSE IF HighLoss(m.ping_google_dns.loss)
         THEN UnstableConnection(m.ping_google_dns.loss)
    ELSE IF HighLatency(m.ping_google_dns.avg)
         THEN SlowConnection(m.ping_google_dns.avg)
    ELSE Healthy

(* get_diagnosis: exc is the exception it raises ("none" when it returns),
   value the Diagnosis it returns.  Reading a key of the empty dict raises
   KeyError. *)
get_diagnosis(arg, stored, windows) ==
    LET m == Chosen(arg, stored)
    IN  IF m = EmptyResults
        THEN [exc |-> "KeyError", value |-> Unknown]
        ELSE [exc |-> "none", value |-> Cascade(m, windows)]

----------------------------------------------------------------------------
(* Initial state: a NetCheckCLI has been constructed (checker, diagnostics)
   and a NetworkMonitor exists whose monitor() has not been called. *)

NoCall == [arg |-> None, exc |-> "nocall", value |-> Unknown]

Commands == {"status", "ping", "full", "monitor"}

(* The state in which main is entered with the command cmd. *)
Start(cmd) ==
    /\ is_windows \in BOOLEAN
    /\ results = EmptyResults
    /\ call = NoCall
    /\ repeat = FALSE
    /\ pc = "idle"
    /\ running = FALSE
    /\ previous_status = None
    /\ connected = FALSE
    /\ ticks = <<>>
    /\ events = <<>>
    /\ diag_runs = 0
    /\ diagnosis = Unknown
    /\ command = cmd
    /\ exit_status = None

(* netcheck monitor *)
Init == Start("monitor")

(* netcheck with any of its commands *)
InitMain == \E cmd \in Commands : Start(cmd)

----------------------------------------------------------------------------
(* Direct use of NetworkDiagnostics *)

(* diagnostics.run_full_diagnostic(), every probe returning *)
RunFullDiagnostic ==
    \E l \in LocalIps, e \in ExternalIps, g \in Gateways, i \in InterfaceLists,
       p \in PingOutcomes, d \in DomainPings, n \in DnsOutcomes :
        /\ ~check_dns_raises(n)
        /\ results' = run_full_diagnostic(l, e, g, i, p, d, n)
        /\ UNCHANGED <<is_windows, call, repeat>>
        /\ UNCHANGED monitor_vars
        /\ UNCHANGED main_vars

(* diagnostics.get_diagnosis(m) *)
Diagnose(m) ==
    LET r == get_diagnosis(Some(m), results, is_windows)
    IN  /\ call' = [arg |-> Some(m), exc |-> r.exc, value |-> r.value]
        /\ repeat' = (call.arg = Some(m))
        /\ UNCHANGED <<is_windows, results>>
        /\ UNCHANGED monitor_vars
        /\ UNCHANGED main_vars

GetDiagnosis == \E m \in Measurement : Diagnose(m)

(* diagnostics.get_diagnosis() *)
GetDiagnosisStored ==
    LET r == get_diagnosis(None, results, is_windows)
    IN  /\ call' = [arg |-> None, exc |-> r.exc, value |-> r.value]
        /\ repeat' = FALSE
        /\ UNCHANGED <<is_windows, results>>
        /\ UNCHANGED monitor_vars
        /\ UNCHANGED main_vars

(* The diagnosis engine applied to every Measurement *)
NextDiag ==
    \/ GetDiagnosis
    \/ GetDiagnosisStored

SpecDiag == Init /\ [][NextDiag]_vars

(* A caller that diagnoses one Measurement, again and again, while full
   diagnostics replace the stored results in between. *)
GetDiagnosisFirst == call = NoCall /\ GetDiagnosis
GetDiagnosisAgain == call.arg /= None /\ Diagnose(call.arg[1])

NextPure ==
    \/ GetDiagnosisFirst
    \/ GetDiagnosisAgain
    \/ RunFullDiagnostic

SpecPure == Init /\ [][NextPure]_vars

----------------------------------------------------------------------------
(* NetworkMonitor *)

StatusChanged(c, previous) == Some(c) /= previous

(* _handle_status_change testing previous_status for falsiness, not for
   False *)
_handle_status_change_Falsy(c, previous) ==
    IF c /\ previous \in {None, Some(FALSE)}
    THEN [events |-> <<"RESTORED">>, diagnostic |-> FALSE]
    ELSE IF ~c /\ previous = Some(TRUE)
    THEN [events |-> <<"LOST">>, diagnostic |-> TRUE]
    ELSE IF previous = None
    THEN IF c THEN [events |-> <<"initial_up">>, diagnostic |-> FALSE]
              ELSE [events |-> <<"initial_down">>, diagnostic |-> TRUE]
    ELSE [events |-> <<>>, diagnostic |-> FALSE]

(* _handle_status_change running the full diagnostic on RESTORED too *)
_handle_status_change_DiagnoseOnRestore(c, previous) ==
    IF c /\ previous = Some(FALSE)
    THEN [events |-> <<"RESTORED">>, diagnostic |-> TRUE]
    ELSE IF ~c /\ previous = Some(TRUE)
    THEN [events |-> <<"LOST">>, diagnostic |-> TRUE]
    ELSE IF previous = None
    THEN IF c THEN [events |-> <<"initial_up">>, diagnostic |-> FALSE]
              ELSE [events |-> <<"initial_down">>, diagnostic |-> TRUE]
    ELSE [events |-> <<>>, diagnostic |-> FALSE]

(* _handle_status_change without the full diagnostic of the initial check *)
_handle_status_change_NoInitialDiag(c, previous) ==
    IF c /\ previous = Some(FALSE)
    THEN [events |-> <<"RESTORED">>, diagnostic |-> FALSE]
    ELSE IF ~c /\ previous = Some(TRUE)
    THEN [events |-> <<"LOST">>, diagnostic |-> TRUE]
    ELSE IF previous = None
    THEN IF c THEN [events |-> <<"initial_up">>, diagnostic |-> FALSE]
              ELSE [events |-> <<"initial_down">>, diagnostic |-> FALSE]
    ELSE [events |-> <<>>, diagnostic |-> FALSE]

(* _handle_status_change taking an unset previous_status for an up one *)
_handle_status_change_NoneIsUp(c, previous) ==
    IF c /\ previous = Some(FALSE)
    THEN [events |-> <<"RESTORED">>, diagnostic |-> FALSE]
    ELSE IF ~c /\ previous /= Some(FALSE)
    THEN [events |-> <<"LOST">>, diagnostic |-> TRUE]
    ELSE IF previous = None
    THEN IF c THEN [events |-> <<"initial_up">>, diagnostic |-> FALSE]
              ELSE [events |-> <<"initial_down">>, diagnostic |-> TRUE]
    ELSE [events |-> <<>>, diagnostic |-> FALSE]

(* _handle_status_change: what it prints, and whether it runs the full
   diagnostic *)
_handle_status_change(c, previous) ==
    IF c /\ previous = Some(FALSE)
    THEN [events |-> <<"RESTORED">>, diagnostic |-> FALSE]
    ELSE IF ~c /\ previous = Some(TRUE)
    THEN [events |-> <<"LOST">>, diagnostic |-> TRUE]
    ELSE IF previous = None
    THEN IF c THEN [events |-> <<"initial_up">>, diagnostic |-> FALSE]
              ELSE [events |-> <<"initial_down">>, diagnostic |-> TRUE]
    ELSE [events |-> <<>>, diagnostic |-> FALSE]

Heartbeat(c) == IF c THEN <<"heartbeat_up">> ELSE <<"heartbeat_down">>

(* monitor(): self.running = True, then the loop is entered *)
StartMonitor ==
    /\ pc = "idle"
    /\ command = "monitor"
    /\ running' = TRUE
    /\ pc' = "check"
    /\ UNCHANGED <<is_windows, results, call, repeat, previous_status,
                   connected, ticks, events, diag_runs, diagnosis>>
    /\ UNCHANGED main_vars

(* One pass of the loop body up to the full diagnostic or the sleep: the
   quick check, then the alert or initial report of _handle_status_change,
   or the heartbeat. *)
Tick ==
    /\ pc = "check"
    /\ running
    /\ Len(ticks) < MaxTicks
    /\ \E outcome \in PingOutcomes :
        LET c == is_connected(outcome)
            h == _handle_status_change(c, previous_status)
        IN  /\ connected' = c
            /\ ticks' = Append(ticks, c)
            /\ IF StatusChanged(c, previous_status)
               THEN /\ events' = events \o h.events
                    /\ IF h.diagnostic
                       THEN /\ diag_runs' = diag_runs + 1
                            /\ pc' = "diagnose"
                            /\ UNCHANGED previous_status
                       ELSE /\ previous_status' = Some(c)
                            /\ pc' = "sleep"
                            /\ UNCHANGED diag_runs
               ELSE /\ events' = events \o Heartbeat(c)
                    /\ previous_status' = Some(c)
                    /\ pc' = "sleep"
                    /\ UNCHANGED diag_runs
    /\ UNCHANGED <<is_windows, results, call, repeat, running, diagnosis>>
    /\ UNCHANGED main_vars

(* The full diagnostic of _handle_status_change: run_full_diagnostic, then
   get_diagnosis on what it returned; back in monitor, previous_status is
   set.  An exception of check_dns other than gaierror leaves monitor. *)
FullDiagnostic ==
    /\ pc = "diagnose"
    /\ \E l \in LocalIps, e \in ExternalIps, g \in Gateways, i \in InterfaceLists,
          p \in PingOutcomes, d \in DomainPings, n \in DnsOutcomes :
        IF check_dns_raises(n)
        THEN /\ pc' = "raised"
             /\ UNCHANGED <<results, diagnosis, previous_status>>
        ELSE LET r == run_full_diagnostic(l, e, g, i, p, d, n)
             IN  /\ results' = r
                 /\ diagnosis' = get_diagnosis(Some(r), r, is_windows).value
                 /\ previous_status' = Some(connected)
                 /\ pc' = "sleep"
    /\ UNCHANGED <<is_windows, call, repeat, running, connected, ticks,
                   events, diag_runs>>
    /\ UNCHANGED main_vars

(* time.sleep(self.interval) returns *)
Sleep ==
    /\ pc = "sleep"
    /\ pc' = "check"
    /\ UNCHANGED <<is_windows, results, call, repeat, running,
                   previous_status, connected, ticks, events, diag_runs,
                   diagnosis>>
    /\ UNCHANGED main_vars

(* KeyboardInterrupt inside the try block *)
Interrupt ==
    /\ pc \in {"check", "diagnose", "sleep"}
    /\ events' = Append(events, "stop_notice")
    /\ running' = FALSE
    /\ pc' = "stopped"
    /\ UNCHANGED <<is_windows, results, call, repeat, previous_status,
                   connected, ticks, diag_runs, diagnosis>>
    /\ UNCHANGED main_vars

Next ==
    \/ StartMonitor
    \/ Tick
    \/ FullDiagnostic
    \/ Sleep
    \/ Interrupt

Spec == Init /\ [][Next]_vars

----------------------------------------------------------------------------
(* main and the commands of NetCheckCLI *)

(* main with both handlers catching everything that is not an Exception as
   an error *)
main_InterruptIsError(leaving) ==
    IF leaving = "none"
    THEN [notice |-> <<>>, status |-> 0]
    ELSE [notice |-> <<"error_notice">>, status |-> 1]

(* main's try block: what is printed and the exit status, by what leaves
   cli.run(): nothing (it returns), a KeyboardInterrupt or another
   exception *)
main(leaving) ==
    IF leaving = "KeyboardInterrupt"
    THEN [notice |-> <<"cancel_notice">>, status |-> 0]
    ELSE IF leaving = "Exception"
    THEN [notice |-> <<"error_notice">>, status |-> 1]
    ELSE [notice |-> <<>>, status |-> 0]

(* The process ends: main's handler prints its notice and the exit status
   is set. *)
Exit(leaving) ==
    /\ events' = events \o main(leaving).notice
    /\ exit_status' = Some(main(leaving).status)
    /\ pc' = "exited"

(* cmd_status: every probe it uses swallows its own failures *)
CmdStatus ==
    /\ pc = "idle"
    /\ command = "status"
    /\ pc' = "returned"
    /\ UNCHANGED <<is_windows, results, call, repeat, running,
                   previous_status, connected, ticks, events, diag_runs,
                   diagnosis, command, exit_status>>

(* cmd_ping: two pings, then check_dns, then the printed results *)
CmdPing ==
    /\ pc = "idle"
    /\ command = "ping"
    /\ \E p \in PingOutcomes, d \in DomainPings, n \in DnsOutcomes :
        pc' = IF check_dns_raises(n) THEN "raised" ELSE "returned"
    /\ UNCHANGED <<is_windows, results, call, repeat, running,
                   previous_status, connected, ticks, events, diag_runs,
                   diagnosis, command, exit_status>>

(* cmd_full up to the report: run_full_diagnostic, then get_diagnosis *)
CmdFull ==
    /\ pc = "idle"
    /\ command = "full"
    /\ \E l \in LocalIps, e \in ExternalIps, g \in Gateways, i \in InterfaceLists,
          p \in PingOutcomes, d \in DomainPings, n \in DnsOutcomes :
        IF check_dns_raises(n)
        THEN /\ pc' = "raised"
             /\ UNCHANGED <<results, diagnosis>>
        ELSE LET r == run_full_diagnostic(l, e, g, i, p, d, n)
             IN  /\ results' = r
                 /\ diagnosis' = get_diagnosis(Some(r), r, is_windows).value
                 /\ pc' = "report"
    /\ UNCHANGED <<is_windows, call, repeat, running, previous_status,
                   connected, ticks, events, diag_runs, command, exit_status>>

(* cmd_full: print_full_report *)
CmdFullReport ==
    /\ pc = "report"
    /\ pc' = "returned"
    /\ UNCHANGED <<is_windows, results, call, repeat, running,
                   previous_status, connected, ticks, events, diag_runs,
                   diagnosis, command, exit_status>>

(* cli.run() returns: a command that completed, or monitor() after it
   handled the interrupt itself *)
MainReturn ==
    /\ pc \in {"returned", "stopped"}
    /\ Exit("none")
    /\ UNCHANGED <<is_windows, results, call, repeat, running,
                   previous_status, connected, ticks, diag_runs, diagnosis,
                   command>>

(* KeyboardInterrupt outside monitor()'s try block: during a one-shot
   command, or before the monitor loop is entered *)
MainInterrupt ==
    /\ pc \in {"idle", "report"}
    /\ Exit("KeyboardInterrupt")
    /\ UNCHANGED <<is_windows, results, call, repeat, running,
                   previous_status, connected, ticks, diag_runs, diagnosis,
                   command>>

(* Another exception leaves cli.run() *)
MainError ==
    /\ pc = "raised"
    /\ Exit("Exception")
    /\ UNCHANGED <<is_windows, results, call, repeat, running,
                   previous_status, connected, ticks, diag_runs, diagnosis,
                   command>>

NextMain ==
    \/ CmdStatus
    \/ CmdPing
    \/ CmdFull
    \/ CmdFullReport
    \/ StartMonitor
    \/ Tick
    \/ FullDiagnostic
    \/ Sleep
    \/ Interrupt
    \/ MainReturn
    \/ MainInterrupt
    \/ MainError

SpecMain == InitMain /\ [][NextMain]_vars

----------------------------------------------------------------------------
(* Properties of get_diagnosis, stated on the latest call *)

Called == call.arg /= None
Arg == call.arg[1]
Returned == call.exc = "none"
Status == call.value.status
Loss == Arg.ping_google_dns.loss
Avg == Arg.ping_google_dns.avg
LossAtMost20 == Loss = None \/ Loss[1] <= 20
AvgAtMost100 == Avg = None \/ Avg[1] <= 100 * AvgUnit

(* C1: a Measurement whose internet_connected is false is diagnosed
   no_connection, whatever dns_working, loss, latency, local_ip and gateway
   are. *)
C1_NoConnection ==
    (Called /\ ~Arg.internet_connected) =>
        (Returned /\ Status = "no_connection")

C1_Witness ==
    /\ Called /\ ~Arg.internet_connected
    /\ Arg.dns_working /\ Loss = Some(50) /\ Avg = Some(200 * AvgUnit)
    /\ Arg.local_ip /= None /\ Arg.gateway /= None
    /\ Status = "no_connection"

(* C2: a Measurement with internet_connected true and dns_working false is
   diagnosed dns_issue, whatever loss and latency are. *)
C2_DnsIssue ==
    (Called /\ Arg.internet_connected /\ ~Arg.dns_working) =>
        (Returned /\ Status = "dns_issue")

C2_Witness ==
    /\ Called /\ Arg.internet_connected /\ ~Arg.dns_working
    /\ Loss = Some(50) /\ Avg = Some(200 * AvgUnit)
    /\ Status = "dns_issue"

(* C3: with internet_connected and dns_working true, a loss that is present
   and above 20 gives unstable_connection whatever the latency is, and a
   loss of exactly 20 does not give unstable_connection. *)
C3_Unstable ==
    (Called /\ Arg.internet_connected /\ Arg.dns_working) =>
        /\ (Loss /= None /\ Loss[1] > 20) =>
               (Returned /\ Status = "unstable_connection")
        /\ Loss = Some(20) => Status /= "unstable_connection"

C3_Witness ==
    /\ Called /\ Arg.internet_connected /\ Arg.dns_working
    /\ Loss = Some(50) /\ Avg = Some(200 * AvgUnit)
    /\ Status = "unstable_connection"

(* C4: with internet_connected and dns_working true and loss absent or at
   most 20, a latency that is present and above 100 ms gives
   slow_connection, and a latency of exactly 100 ms does not. *)
C4_Slow ==
    (Called /\ Arg.internet_connected /\ Arg.dns_working /\ LossAtMost20) =>
        /\ (Avg /= None /\ Avg[1] > 100 * AvgUnit) =>
               (Returned /\ Status = "slow_connection")
        /\ Avg = Some(100 * AvgUnit) => Status /= "slow_connection"

C4_Witness ==
    /\ Called /\ Arg.internet_connected /\ Arg.dns_working
    /\ Loss = Some(20) /\ Avg = Some(100 * AvgUnit + 1)
    /\ Status = "slow_connection"

(* C5: with internet_connected and dns_working true, loss absent or at most
   20 and latency absent or at most 100 ms, the diagnosis is healthy with no
   issue and the single advice "Internet is working normally"; an absent
   loss or latency triggers neither the loss rule nor the latency rule. *)
C5_Healthy ==
    (Called /\ Arg.internet_connected /\ Arg.dns_working
        /\ LossAtMost20 /\ AvgAtMost100) =>
        /\ Returned
        /\ Status = "healthy"
        /\ call.value.issues = <<>>
        /\ call.value.advice = <<"Internet is working normally">>

C5_Witness ==
    /\ Called /\ Arg.internet_connected /\ Arg.dns_working
    /\ Loss = None /\ Avg = None
    /\ Status = "healthy"

(* C6: get_diagnosis returns for every Measurement passed to it, and the
   status it returns is one of the five kinds, never "unknown". *)
C6_Total ==
    Called =>
        /\ Returned
        /\ Status \in {"no_connection", "dns_issue", "unstable_connection",
                       "slow_connection", "healthy"}

C6_Witness ==
    /\ Called /\ Returned
    /\ Arg.local_ip = None /\ Arg.gateway = None /\ Loss = None /\ Avg = None
    /\ Arg.internet_connected /\ Arg.dns_working
    /\ Status /= "unknown"

(* C8: for a Measurement whose internet_connected is false the issues are
   the top-level issue followed by one sub-classification issue: no local
   IP when local_ip is absent, else no default gateway when gateway is
   absent, else connected to the router without internet access; the advice
   is the two items of that sub-classification. *)
C8_NoConnectionIssues ==
    (Called /\ ~Arg.internet_connected) =>
        /\ Len(call.value.issues) = 2
        /\ call.value.issues[1] = "No internet connectivity detected"
        /\ IF Arg.local_ip = None
           THEN /\ call.value.issues[2] = "No network connection (no local IP)"
                /\ call.value.advice =
                       <<"Check your network cable or Wi-Fi connection",
                         "Restart your network adapter">>
           ELSE IF Arg.gateway = None
           THEN /\ call.value.issues[2] = "No default gateway detected"
                /\ call.value.advice =
                       <<"Check router connection", "Restart your router">>
           ELSE /\ call.value.issues[2] =
                       "Connected to router but no internet access"
                /\ call.value.advice =
                       <<"Check if your router has internet access",
                         "Contact your ISP if router is online but no internet">>

C8_Witness ==
    /\ Called /\ ~Arg.internet_connected
    /\ Arg.local_ip = None /\ Arg.gateway /= None
    /\ call.value.issues[2] = "No network connection (no local IP)"

(* C7: two get_diagnosis calls with the same Measurement return the same
   Diagnosis, whatever full diagnostics stored in between, and a call leaves
   the stored results and the platform flag as they were. *)
C7_Pure ==
    [][/\ (call.arg /= None /\ call'.arg = call.arg) =>
              (call'.exc = call.exc /\ call'.value = call.value)
       /\ (<<call, repeat>>' /= <<call, repeat>>) =>
              (results' = results /\ is_windows' = is_windows)]_vars

C7_Witness ==
    /\ repeat /\ Called /\ Returned
    /\ results /= EmptyResults
    /\ results /= Arg
    /\ get_diagnosis(None, results, is_windows).value.status /= Status

----------------------------------------------------------------------------
(* Properties of the monitor loop *)

IsTickEvent(e) == e /= "stop_notice"
TickEvents == SelectSeq(events, IsTickEvent)

Scenario == <<TRUE, TRUE, FALSE, FALSE, TRUE>>

ExpectedEvent(previous, c) ==
    IF previous = None THEN (IF c THEN "initial_up" ELSE "initial_down")
    ELSE IF previous = Some(c) THEN (IF c THEN "heartbeat_up" ELSE "heartbeat_down")
    ELSE IF c THEN "RESTORED" ELSE "LOST"

PreviousOf(i) == IF i = 1 THEN None ELSE Some(ticks[i - 1])

(* C9: every tick emits exactly one event, fixed by the preceding tick's
   result (none before the first tick) and this tick's result: initial
   report, heartbeat when equal, RESTORED on down to up, LOST on up to down;
   previous_status holds the latest result once a tick is over; the results
   true, true, false, false, true emit initial-up, heartbeat-up, LOST,
   heartbeat-down, RESTORED. *)
C9_EdgeTriggered ==
    /\ Len(TickEvents) = Len(ticks)
    /\ \A i \in 1..Len(ticks) :
           TickEvents[i] = ExpectedEvent(PreviousOf(i), ticks[i])
    /\ (pc \in {"check", "sleep"}) =>
           previous_status = (IF ticks = <<>> THEN None
                              ELSE Some(ticks[Len(ticks)]))
    /\ ticks = Scenario =>
           TickEvents = <<"initial_up", "heartbeat_up", "LOST",
                          "heartbeat_down", "RESTORED">>

C9_Witness ==
    /\ ticks = Scenario
    /\ pc = "sleep"
    /\ previous_status = Some(TRUE)
    /\ Len(TickEvents) = 5

InLoop(p) == p \in {"check", "diagnose", "sleep"}

(* C12: the loop has no iteration limit and is left only through an
   interrupt: every step that leaves the loop is the handling of a
   KeyboardInterrupt, which may come during the quick check, the full
   diagnostic or the sleep, prints the stop notice, sets running to false and
   returns; no tick follows it. *)
C12_LeftOnlyByInterrupt ==
    [][/\ (InLoop(pc) /\ ~InLoop(pc')) =>
              /\ pc' = "stopped"
              /\ ~running'
              /\ events' = Append(events, "stop_notice")
              /\ ticks' = ticks
       /\ pc = "stopped" => ticks' = ticks]_vars

(* C13: no failure of a sub-probe leaves run_full_diagnostic: a full
   diagnostic that was started completes and hands back a Measurement. *)
C13_NoProbeFailurePropagates ==
    /\ pc /= "raised"
    /\ (pc = "sleep" /\ diag_runs > 0) => results \in Measurement

----------------------------------------------------------------------------
(* Rendering of the loss and latency issues *)

OneDecimal(x) ==
    LET tenths == (x * 10 + (AvgUnit \div 2)) \div AvgUnit
    IN  ToString(tenths \div 10) \o "." \o ToString(tenths % 10)

(* C15: the issue of an unstable_connection diagnosis renders the loss with
   no decimal place (loss 21 as "21%"), and the issue of a slow_connection
   diagnosis renders the latency with one decimal place. *)
C15_Rendering ==
    Called =>
        /\ Status = "unstable_connection" =>
               call.value.issues =
                   <<"High packet loss (" \o ToString(Loss[1]) \o "%)">>
        /\ Status = "slow_connection" =>
               call.value.issues =
                   <<"High latency (" \o OneDecimal(Avg[1]) \o "ms)">>

----------------------------------------------------------------------------
(* The diagnosis the monitor prints *)

(* C16: the diagnosis of a full diagnostic run by the monitor agrees with
   the down result that triggered it: its status is no_connection and it
   has an issue, whatever the probes of the full diagnostic returned. *)
C16_DiagnosisAgreesWithDown ==
    diagnosis /= Unknown =>
        /\ diagnosis.status = "no_connection"
        /\ Len(diagnosis.issues) >= 1

----------------------------------------------------------------------------
(* Order of the alerts *)

IsReport(e) == e \in {"initial_up", "initial_down", "LOST", "RESTORED"}
Reports == SelectSeq(events, IsReport)

(* C17: LOST and RESTORED alternate; a RESTORED follows a down report
   (initial-down or LOST) and a LOST follows an up report (initial-up or
   RESTORED), heartbeats aside; the first tick emits no alert. *)
C17_AlertsAlternate ==
    /\ \A i \in 1..Len(Reports) :
           /\ Reports[i] = "LOST" =>
                  (i > 1 /\ Reports[i - 1] \in {"initial_up", "RESTORED"})
           /\ Reports[i] = "RESTORED" =>
                  (i > 1 /\ Reports[i - 1] \in {"initial_down", "LOST"})
           /\ Reports[i] \in {"initial_up", "initial_down"} => i = 1
    /\ TickEvents /= <<>> => TickEvents[1] \in {"initial_up", "initial_down"}

C17_Witness ==
    /\ Reports = <<"initial_down", "RESTORED", "LOST", "RESTORED">>
    /\ Len(ticks) = 4

----------------------------------------------------------------------------
(* Exit behaviour of main *)

LastEvent == IF events = <<>> THEN "none" ELSE events[Len(events)]

(* C14: for every command, a run that completes exits 0 and prints no
   error; an interrupt ends the process with status 0 after the stop notice
   (inside the monitor loop) or the cancellation notice (anywhere else) and
   is never reported as an error; any other exception that leaves the
   command prints the error notice and exits 1. *)
C14_ExitBehaviour ==
    [][/\ (pc' = "exited" /\ pc /= "exited") =>
              /\ pc = "returned" =>
                     (exit_status' = Some(0) /\ events' = events)
              /\ pc = "stopped" =>
                     /\ exit_status' = Some(0)
                     /\ events' = events
                     /\ LastEvent = "stop_notice"
              /\ pc \in {"idle", "report"} =>
                     /\ exit_status' = Some(0)
                     /\ events' = Append(events, "cancel_notice")
              /\ pc = "raised" =>
                     /\ exit_status' = Some(1)
                     /\ events' = Append(events, "error_notice")
       /\ (exit_status' /= None) <=> (pc' = "exited")
       /\ (pc = "exited") => (pc' = "exited" /\ exit_status' = exit_status)]_vars

C14_Witness ==
    /\ pc = "exited"
    /\ command = "monitor"
    /\ exit_status = Some(0)
    /\ LastEvent = "stop_notice"
    /\ Len(ticks) >= 2

====
